---- MODULE Spec2Model ----
(***************************************************************************)
(* Model of scripts/build.ts, the multi-platform build script of           *)
(* perf-doctor.  One process run: main() dispatches on the leading         *)
(* command-line token and runs one of the build modes, clean, list or      *)
(* help.  The external collaborators (the bun compiler run through the     *)
(* Bun shell, mkdirSync, existsSync, Bun.file().size, rm -rf) are          *)
(* nondeterministic in their outcome.                                      *)
(*                                                                         *)
(* Strings that the script takes apart or puts together (the platform      *)
(* specifier, the artifact path) are sequences of symbols; a symbol is an  *)
(* opaque run of characters without "-", or the separator "-" itself.      *)
(***************************************************************************)
EXTENDS Integers, Sequences, FiniteSets, TLC

\* Longest platform specifier (in symbols) given after -p / --platform.
MaxSpecLen == 5

\* How many times in succession the clean is started.
MaxRuns == 2

\* build.ts:25-32
PLATFORMS ==
  << [os |-> "windows", arch |-> "x64",   target |-> "bun-windows-x64",   extension |-> ".exe"],
     [os |-> "windows", arch |-> "arm64", target |-> "bun-windows-arm64", extension |-> ".exe"],
     [os |-> "darwin",  arch |-> "x64",   target |-> "bun-darwin-x64",    extension |-> ""],
     [os |-> "darwin",  arch |-> "arm64", target |-> "bun-darwin-arm64",  extension |-> ""],
     [os |-> "linux",   arch |-> "x64",   target |-> "bun-linux-x64",     extension |-> ""],
     [os |-> "linux",   arch |-> "arm64", target |-> "bun-linux-arm64",   extension |-> ""] >>

\* JavaScript null, as the result of detectCurrentPlatform / Array.find.
NULL == [os |-> "null", arch |-> "null", target |-> "null", extension |-> "null"]

\* JavaScript undefined, as the result of a lookup in osMap / archMap.
Undefined == "undefined"

\* build.ts:50-54
osMap == [win32 |-> "windows", darwin |-> "darwin", linux |-> "linux"]

\* build.ts:57-61
archMap == [x64 |-> "x64", arm64 |-> "arm64", ia32 |-> "x86"]

\* obj[key] on a plain object literal
Lookup(map, key) == IF key \in DOMAIN map THEN map[key] ELSE Undefined

\* Array.prototype.find(...) || null over PLATFORMS: the first entry among
\* the positions whose entry satisfies the predicate
FindPlatform(matching) ==
  IF matching = {}
    THEN NULL
    ELSE PLATFORMS[CHOOSE i \in matching : \A j \in matching : i <= j]

\* detectCurrentPlatform with the architecture left out of the catalog search
detectCurrentPlatform_OsOnly(platform, arch) ==
  LET currentOS   == Lookup(osMap, platform)
      currentArch == Lookup(archMap, arch)
      Match(p)    == p.os = currentOS
  IN  IF currentOS = Undefined \/ currentArch = Undefined
        THEN NULL
        ELSE FindPlatform({ i \in 1..Len(PLATFORMS) : Match(PLATFORMS[i]) })

\* build.ts:48-69
detectCurrentPlatform(platform, arch) ==
  LET currentOS   == Lookup(osMap, platform)
      currentArch == Lookup(archMap, arch)
      Match(p)    == p.os = currentOS /\ p.arch = currentArch
  IN  IF currentOS = Undefined \/ currentArch = Undefined
        THEN NULL
        ELSE FindPlatform({ i \in 1..Len(PLATFORMS) : Match(PLATFORMS[i]) })

\* String.prototype.split("-"): the segments between the separators
RECURSIVE Split(_)
Split(s) ==
  IF \A i \in 1..Len(s) : s[i] # "-"
    THEN << s >>
    ELSE LET k == CHOOSE i \in 1..Len(s) :
                    s[i] = "-" /\ \A j \in 1..(i-1) : s[j] # "-"
         IN  << SubSeq(s, 1, k-1) >> \o Split(SubSeq(s, k+1, Len(s)))

\* build.ts:173-174: const [os, arch] = platformSpec.split("-"); PLATFORMS.find(...)
FindSpecifiedPlatform(platformSpec) ==
  LET parts    == Split(platformSpec)
      Match(p) == /\ parts[1] = << p.os >>
                  /\ Len(parts) >= 2
                  /\ parts[2] = << p.arch >>
  IN  FindPlatform({ i \in 1..Len(PLATFORMS) : Match(PLATFORMS[i]) })

\* A template-literal part: the empty string contributes no symbol
Part(str) == IF str = "" THEN << >> ELSE << str >>

\* The artifact name with the architecture left out
OutputName_NoArch(p) ==
  << "build/", "pref-doctor", "-" >> \o Part(p.os) \o Part(p.extension)

\* build.ts:90
OutputName(p) ==
  << "build/", "pref-doctor", "-" >> \o Part(p.os) \o << "-" >> \o Part(p.arch) \o Part(p.extension)

\* build.ts:127: --outfile=build/pref-doctor
DefaultOutputName == << "build/", "pref-doctor" >>

\* A shell that rejects on an invocation error only, never on an exit status
ShellThrowsOnlyOnError(outcome, nothrow) ==
  outcome = "error"

\* build.ts:13: the Bun shell rejects on a non-zero exit status unless
\* .nothrow() is used; an invocation error (tool missing) rejects always.
ShellThrows(outcome, nothrow) ==
  \/ outcome = "error"
  \/ outcome = "nonzero" /\ ~nothrow

------------------------------------------------------------------------------
\* Inputs

Commands ==
  { "-h", "--help", "-a", "--all", "-c", "--current", "-p", "--platform",
    "--clean", "--list", "--bogus" }

SpecSymbols ==
  { PLATFORMS[i].os : i \in 1..Len(PLATFORMS) } \cup
  { PLATFORMS[i].arch : i \in 1..Len(PLATFORMS) } \cup { "foo", "-" }

SpecStrings == UNION { [1..n -> SpecSymbols] : n \in 0..MaxSpecLen }

TrailingSamples == { << "foo" >>, << "linux", "-", "x64" >>, << >> }

HostPlatforms == { "win32", "darwin", "linux", "freebsd" }
HostArchs     == { "x64", "arm64", "ia32", "ppc64" }

ShellOutcomes == { "exit0", "nonzero", "error" }

\* process.argv.slice(2)
ArgLists ==
  { << >> } \cup
  { << c >> : c \in Commands } \cup
  { << c, s >> : c \in { "-p", "--platform" }, s \in SpecStrings } \cup
  { << c, s >> : c \in Commands \ { "-p", "--platform" }, s \in TrailingSamples }

------------------------------------------------------------------------------
VARIABLES
  args,          \* process.argv.slice(2)
  host,          \* process.platform / process.arch, once read
  pc,            \* position of the single thread of control
  mode,          \* the branch of main's switch that was taken
  dirExists,     \* whether build/ exists
  files,         \* artifact paths present under build/
  currentPlatform, \* buildCurrentPlatform: result of detectCurrentPlatform()
  runs,          \* how many times the script has been started
  cur,           \* platform argument of the running buildPlatform call
  idx,           \* position of the for-of loop of buildAllPlatforms
  successCount,  \* buildAllPlatforms: successCount
  tally,         \* the "successCount/totalCount" line, once printed
  bpCalls,       \* calls of buildPlatform: argument and how each ended
  trace,         \* external operations performed, in order
  log,           \* kinds of message printed
  retval,        \* what the mode function returned to main
  exitCode       \* process exit status (meaningful when pc = "exited")

vars == << args, host, pc, mode, dirExists, files, currentPlatform, runs, cur,
           idx, successCount, tally, bpCalls, trace, log, retval, exitCode >>

command == IF Len(args) >= 1 THEN args[1] ELSE Undefined

\* !args[1]: absent or the empty string
NoPlatformArg == Len(args) < 2 \/ args[2] = << >>

\* One external operation: what was run, on what, and how it ended
Event(op, target, outfile, outcome) ==
  [op |-> op, target |-> target, outfile |-> outfile, outcome |-> outcome]

Init ==
  /\ args \in ArgLists
  /\ host = [platform |-> "unread", arch |-> "unread"]
  /\ pc = "main"
  /\ mode = "none"
  /\ dirExists \in BOOLEAN
  /\ files = {}
  /\ currentPlatform = NULL
  /\ runs = 1
  /\ cur = NULL
  /\ idx = 0
  /\ successCount = 0
  /\ tally = << >>
  /\ bpCalls = << >>
  /\ trace = << >>
  /\ log = {}
  /\ retval = "none"
  /\ exitCode = 0

------------------------------------------------------------------------------
\* main's switch, build.ts:241-282

\* build.ts:242-245
MainHelp ==
  /\ pc = "main" /\ command \in { "-h", "--help" }
  /\ mode' = "help"
  /\ log' = log \cup { "usage" }
  /\ pc' = "return"
  /\ UNCHANGED << currentPlatform, runs, args, host, dirExists, files, cur, idx, successCount, tally,
                  bpCalls, trace, retval, exitCode >>

\* build.ts:247-250 and 144-148
MainAll ==
  /\ pc = "main" /\ command \in { "-a", "--all" }
  /\ mode' = "all"
  /\ successCount' = 0
  /\ idx' = 1
  /\ pc' = "all_loop"
  /\ UNCHANGED << currentPlatform, runs, args, host, dirExists, files, cur, tally, bpCalls, trace,
                  log, retval, exitCode >>

\* build.ts:252-255 and 274-276
MainCurrent ==
  /\ pc = "main" /\ command \in { "-c", "--current", Undefined }
  /\ mode' = "current"
  /\ pc' = "detect"
  /\ UNCHANGED << currentPlatform, runs, args, host, dirExists, files, cur, idx, successCount, tally,
                  bpCalls, trace, log, retval, exitCode >>

\* build.ts:257-264
MainPlatform ==
  /\ pc = "main" /\ command \in { "-p", "--platform" }
  /\ mode' = "specific"
  /\ IF NoPlatformArg
       THEN /\ log' = log \cup { "error" }
            /\ exitCode' = 1
            /\ pc' = "exited"
       ELSE /\ pc' = "specific"
            /\ UNCHANGED << log, exitCode >>
  /\ UNCHANGED << currentPlatform, runs, args, host, dirExists, files, cur, idx, successCount, tally,
                  bpCalls, trace, retval >>

\* build.ts:266-268
MainClean ==
  /\ pc = "main" /\ command = "--clean"
  /\ mode' = "clean"
  /\ pc' = "clean"
  /\ UNCHANGED << currentPlatform, runs, args, host, dirExists, files, cur, idx, successCount, tally,
                  bpCalls, trace, log, retval, exitCode >>

\* build.ts:270-272 and 222-230
MainList ==
  /\ pc = "main" /\ command = "--list"
  /\ mode' = "list"
  /\ log' = log \cup { "list" }
  /\ pc' = "return"
  /\ UNCHANGED << currentPlatform, runs, args, host, dirExists, files, cur, idx, successCount, tally,
                  bpCalls, trace, retval, exitCode >>

\* The default branch without process.exit(1)
MainDefault_FallsThrough ==
  /\ pc = "main"
  /\ command \notin { "-h", "--help", "-a", "--all", "-c", "--current", "-p",
                      "--platform", "--clean", "--list", Undefined }
  /\ mode' = "unknown"
  /\ log' = log \cup { "error", "usage" }
  /\ pc' = "return"
  /\ UNCHANGED << currentPlatform, runs, args, host, dirExists, files, cur, idx,
                  successCount, tally, bpCalls, trace, retval, exitCode >>

\* build.ts:278-281
MainDefault ==
  /\ pc = "main"
  /\ command \notin { "-h", "--help", "-a", "--all", "-c", "--current", "-p",
                      "--platform", "--clean", "--list", Undefined }
  /\ mode' = "unknown"
  /\ log' = log \cup { "error", "usage" }
  /\ exitCode' = 1
  /\ pc' = "exited"
  /\ UNCHANGED << currentPlatform, runs, args, host, dirExists, files, cur, idx, successCount, tally,
                  bpCalls, trace, retval >>

------------------------------------------------------------------------------
\* Entering buildPlatform(p): the call is recorded, its end is still open
CallBuildPlatform(p) ==
  /\ cur' = p
  /\ bpCalls' = Append(bpCalls, [platform |-> p, result |-> "pending"])
  /\ pc' = "bp_ensure"

\* buildCurrentPlatform up to the first external operation, build.ts:120-124, 136-137
BuildCurrentDetect ==
  /\ pc = "detect"
  /\ \E hp \in HostPlatforms, ha \in HostArchs :
       /\ host' = [platform |-> hp, arch |-> ha]
       /\ currentPlatform' = detectCurrentPlatform(hp, ha)
       /\ IF currentPlatform' = NULL
            THEN /\ log' = log \cup { "warning" }
                 /\ pc' = "fallback_ensure"
                 /\ UNCHANGED << cur, bpCalls >>
            ELSE /\ log' = log \cup { "detected" }
                 /\ CallBuildPlatform(currentPlatform')
  /\ UNCHANGED << runs, args, mode, dirExists, files, idx, successCount, tally,
                  trace, retval, exitCode >>

\* build.ts:125-126 with 74-80 and the catch at 130-133
FallbackEnsureBuildDir ==
  /\ pc = "fallback_ensure"
  /\ IF dirExists
       THEN /\ pc' = "fallback_compile"
            /\ UNCHANGED << dirExists, trace, log, retval >>
       ELSE \E ok \in BOOLEAN :
              /\ trace' = Append(trace, Event("mkdir", "none", << "build" >>,
                                              IF ok THEN "ok" ELSE "error"))
              /\ IF ok
                   THEN /\ dirExists' = TRUE
                        /\ pc' = "fallback_compile"
                        /\ UNCHANGED << log, retval >>
                   ELSE /\ log' = log \cup { "error" }
                        /\ retval' = "false"
                        /\ pc' = "return"
                        /\ UNCHANGED dirExists
  /\ UNCHANGED << currentPlatform, runs, args, host, mode, files, cur, idx, successCount, tally,
                  bpCalls, exitCode >>

\* build.ts:127-133
FallbackCompile ==
  /\ pc = "fallback_compile"
  /\ \E outcome \in ShellOutcomes, written \in BOOLEAN :
       /\ outcome # "exit0" => ~written
       /\ trace' = Append(trace, Event("compile", "none", DefaultOutputName, outcome))
       /\ files' = IF written THEN files \cup { DefaultOutputName } ELSE files
       /\ IF ShellThrows(outcome, FALSE)
            THEN /\ log' = log \cup { "error" }
                 /\ retval' = "false"
            ELSE /\ log' = log \cup { "success" }
                 /\ retval' = "true"
  /\ pc' = "return"
  /\ UNCHANGED << currentPlatform, runs, args, host, mode, dirExists, cur, idx, successCount, tally,
                  bpCalls, exitCode >>

\* build.ts:172-184
BuildSpecificPlatform ==
  /\ pc = "specific"
  /\ LET platform == FindSpecifiedPlatform(args[2])
     IN  IF platform = NULL
           THEN /\ log' = log \cup { "error", "supported" }
                /\ retval' = "false"
                /\ pc' = "return"
                /\ UNCHANGED << cur, bpCalls >>
           ELSE /\ CallBuildPlatform(platform)
                /\ UNCHANGED << log, retval >>
  /\ UNCHANGED << currentPlatform, runs, args, host, mode, dirExists, files, idx, successCount,
                  tally, trace, exitCode >>

\* build.ts:150-151: the loop takes the next catalog entry
BuildAllNext ==
  /\ pc = "all_loop" /\ idx <= Len(PLATFORMS)
  /\ CallBuildPlatform(PLATFORMS[idx])
  /\ UNCHANGED << currentPlatform, runs, args, host, mode, dirExists, files, idx, successCount,
                  tally, trace, log, retval, exitCode >>

\* build.ts:156-164: the loop is over
BuildAllFinish ==
  /\ pc = "all_loop" /\ idx > Len(PLATFORMS)
  /\ tally' = << successCount, Len(PLATFORMS) >>
  /\ IF successCount = Len(PLATFORMS)
       THEN /\ log' = log \cup { "tally", "success" }
            /\ retval' = "true"
       ELSE /\ log' = log \cup { "tally", "warning" }
            /\ retval' = "false"
  /\ pc' = "return"
  /\ UNCHANGED << currentPlatform, runs, args, host, mode, dirExists, files, cur, idx, successCount,
                  bpCalls, trace, exitCode >>

------------------------------------------------------------------------------
\* buildPlatform, build.ts:87-114

SetResult(r) == [bpCalls EXCEPT ![Len(bpCalls)].result = r]

\* buildPlatform returns success to its caller (build.ts:137, 151-152, 183)
ReturnFromBuildPlatform(success) ==
  /\ bpCalls' = SetResult(IF success THEN "true" ELSE "false")
  /\ IF mode = "all"
       THEN /\ successCount' = IF success THEN successCount + 1 ELSE successCount
            /\ idx' = idx + 1
            /\ pc' = "all_loop"
            /\ UNCHANGED retval
       ELSE /\ retval' = IF success THEN "true" ELSE "false"
            /\ pc' = "return"
            /\ UNCHANGED << successCount, idx >>

\* build.ts:88 with 74-80: ensureBuildDir() is called before the try block
BuildPlatformEnsureBuildDir ==
  /\ pc = "bp_ensure"
  /\ IF dirExists
       THEN /\ pc' = "bp_compile"
            /\ UNCHANGED << dirExists, trace, bpCalls >>
       ELSE \E ok \in BOOLEAN :
              /\ trace' = Append(trace, Event("mkdir", "none", << "build" >>,
                                              IF ok THEN "ok" ELSE "error"))
              /\ IF ok
                   THEN /\ dirExists' = TRUE
                        /\ pc' = "bp_compile"
                        /\ UNCHANGED bpCalls
                   ELSE /\ bpCalls' = SetResult("threw")
                        /\ pc' = "rejected"
                        /\ UNCHANGED dirExists
  /\ UNCHANGED << currentPlatform, runs, args, host, mode, files, cur, idx, successCount, tally,
                  log, retval, exitCode >>

\* build.ts:93-98 and 106-113
BuildPlatformCompile ==
  /\ pc = "bp_compile"
  /\ \E outcome \in ShellOutcomes, written \in BOOLEAN :
       /\ outcome # "exit0" => ~written
       /\ trace' = Append(trace, Event("compile", cur.target, OutputName(cur), outcome))
       /\ files' = IF written THEN files \cup { OutputName(cur) } ELSE files
       /\ IF ShellThrows(outcome, FALSE) \/ outcome # "exit0"
            THEN /\ log' = log \cup { "error" }
                 /\ ReturnFromBuildPlatform(FALSE)
            ELSE /\ log' = log \cup { "success" }
                 /\ pc' = "bp_size"
                 /\ UNCHANGED << bpCalls, successCount, idx, retval >>
  /\ UNCHANGED << currentPlatform, runs, args, host, mode, dirExists, cur, tally, exitCode >>

\* The size step treating an absent artifact as a failed build
BuildPlatformSize_AbsentFails ==
  /\ pc = "bp_size"
  /\ IF OutputName(cur) \in files
       THEN /\ trace' = Append(trace, Event("size", cur.target, OutputName(cur), "ok"))
            /\ log' = log \cup { "size" }
            /\ ReturnFromBuildPlatform(TRUE)
       ELSE /\ log' = log \cup { "error" }
            /\ ReturnFromBuildPlatform(FALSE)
            /\ UNCHANGED trace
  /\ UNCHANGED << currentPlatform, runs, args, host, mode, dirExists, files,
                  cur, tally, exitCode >>

\* build.ts:99-105: Bun.file(outputName).size is a numeric getter (0 for a
\* file that cannot be examined); it does not throw, so nothing between the
\* exit-status test and "return true" reaches the catch at 110
BuildPlatformSize ==
  /\ pc = "bp_size"
  /\ IF OutputName(cur) \in files
       THEN /\ trace' = Append(trace, Event("size", cur.target, OutputName(cur), "ok"))
            /\ log' = log \cup { "size" }
            /\ ReturnFromBuildPlatform(TRUE)
       ELSE /\ ReturnFromBuildPlatform(TRUE)
            /\ UNCHANGED << trace, log >>
  /\ UNCHANGED << currentPlatform, runs, args, host, mode, dirExists, files, cur, tally, exitCode >>

------------------------------------------------------------------------------
\* cleanBuilds without .nothrow() and without the try/catch
CleanBuilds_Uncaught ==
  /\ pc = "clean"
  /\ \E outcome \in ShellOutcomes :
       /\ trace' = Append(trace, Event("rm", "none", << "build" >>, outcome))
       /\ IF outcome = "exit0"
            THEN dirExists' = FALSE /\ files' = {}
            ELSE UNCHANGED << dirExists, files >>
       /\ IF ShellThrows(outcome, FALSE)
            THEN pc' = "rejected" /\ UNCHANGED log
            ELSE pc' = "return" /\ log' = log \cup { "success" }
  /\ UNCHANGED << currentPlatform, runs, args, host, mode, cur, idx,
                  successCount, tally, bpCalls, retval, exitCode >>

\* build.ts:189-198
CleanBuilds ==
  /\ pc = "clean"
  /\ \E outcome \in ShellOutcomes :
       /\ trace' = Append(trace, Event("rm", "none", << "build" >>, outcome))
       /\ IF outcome = "exit0"
            THEN dirExists' = FALSE /\ files' = {}
            ELSE UNCHANGED << dirExists, files >>
       /\ IF ShellThrows(outcome, TRUE)
            THEN log' = log \cup { "warning" }
            ELSE log' = log \cup { "success" }
  /\ pc' = "return"
  /\ UNCHANGED << currentPlatform, runs, args, host, mode, cur, idx, successCount, tally, bpCalls,
                  retval, exitCode >>

\* build.ts:283: main's promise resolves; the value a mode returned is dropped
MainResolve ==
  /\ pc = "return"
  /\ pc' = "exited"
  /\ exitCode' = 0
  /\ UNCHANGED << currentPlatform, runs, args, host, mode, dirExists, files, cur, idx, successCount,
                  tally, bpCalls, trace, log, retval >>

\* build.ts:287-290
MainCatch ==
  /\ pc = "rejected"
  /\ log' = log \cup { "error" }
  /\ exitCode' = 1
  /\ pc' = "exited"
  /\ UNCHANGED << currentPlatform, runs, args, host, mode, dirExists, files, cur, idx, successCount,
                  tally, bpCalls, trace, retval >>

\* build.ts:286-291: the operator starts the clean once more on the file
\* system the previous run left behind
InvokeAgain ==
  /\ pc = "exited" /\ mode = "clean" /\ runs < MaxRuns
  /\ runs' = runs + 1
  /\ pc' = "main"
  /\ mode' = "none"
  /\ retval' = "none"
  /\ exitCode' = 0
  /\ UNCHANGED << args, host, dirExists, files, currentPlatform, cur, idx,
                  successCount, tally, bpCalls, trace, log >>

Next ==
  \/ MainHelp
  \/ MainAll
  \/ MainCurrent
  \/ MainPlatform
  \/ MainClean
  \/ MainList
  \/ MainDefault
  \/ BuildCurrentDetect
  \/ FallbackEnsureBuildDir
  \/ FallbackCompile
  \/ BuildSpecificPlatform
  \/ BuildAllNext
  \/ BuildAllFinish
  \/ BuildPlatformEnsureBuildDir
  \/ BuildPlatformCompile
  \/ BuildPlatformSize
  \/ CleanBuilds
  \/ MainResolve
  \/ MainCatch
  \/ InvokeAgain

Spec == Init /\ [][Next]_vars

------------------------------------------------------------------------------
\* Properties

\* The compiler invocations performed so far, in order
Compiles == SelectSeq(trace, LAMBDA e : e.op = "compile")

\* The run has left its mode function (returned, rejected or exited)
Finished == pc \in { "return", "rejected", "exited" }

\* The catalog entry a host pair stands for according to the translation
\* tables of the specification, NULL when there is none
HostEntry(h) ==
  LET os   == CASE h.platform = "win32"  -> "windows"
                [] h.platform = "darwin" -> "darwin"
                [] h.platform = "linux"  -> "linux"
                [] OTHER                 -> "unmapped"
      arch == CASE h.arch = "x64"   -> "x64"
                [] h.arch = "arm64" -> "arm64"
                [] h.arch = "ia32"  -> "x86"
                [] OTHER            -> "unmapped"
  IN  IF \E i \in 1..Len(PLATFORMS) : PLATFORMS[i].os = os /\ PLATFORMS[i].arch = arch
        THEN PLATFORMS[CHOOSE i \in 1..Len(PLATFORMS) :
                         PLATFORMS[i].os = os /\ PLATFORMS[i].arch = arch]
        ELSE NULL

\* C1: in every build mode the process exits 1 if an attempted build failed
\* or the specifier matched nothing, and exits 0 if every build succeeded.
C1_ExitStatusReflectsBuild ==
  LET buildFailed ==
        \/ \E i \in 1..Len(bpCalls) : bpCalls[i].result \in { "false", "threw" }
        \/ \E k \in 1..Len(trace) : trace[k].outcome \notin { "exit0", "ok" }
        \/ mode = "specific" /\ bpCalls = << >>
  IN  (pc = "exited" /\ mode \in { "all", "current", "specific" })
        => exitCode = (IF buildFailed THEN 1 ELSE 0)

\* C2: a finished All run has called the builder once for each catalog entry,
\* in whatever way the single builds ended; it returns success iff every call
\* succeeded, and its tally succeeded/total has succeeded <= total.
C2_AllBuildsEveryEntryOnce ==
  (mode = "all" /\ Finished)
    => /\ Len(bpCalls) = Len(PLATFORMS)
       /\ \A i \in 1..Len(bpCalls) : bpCalls[i].platform = PLATFORMS[i]
       /\ (retval = "true") <=> (\A i \in 1..Len(bpCalls) : bpCalls[i].result = "true")
       /\ Len(tally) = 2 /\ tally[2] = Len(PLATFORMS) /\ tally[1] <= tally[2]

\* C3: no call of buildPlatform ends by throwing; every failure inside it is
\* turned into a false result.
C3_BuildPlatformNeverThrows ==
  \A i \in 1..Len(bpCalls) : bpCalls[i].result # "threw"

\* C4: a specifier that is not exactly <os>-<arch> of a catalog entry leads to
\* no builder call and no compiler invocation, and to a failed result.
C4_UnmatchedSpecifierBuildsNothing ==
  LET exact == \E i \in 1..Len(PLATFORMS) :
                 args[2] = << PLATFORMS[i].os, "-", PLATFORMS[i].arch >>
  IN  (mode = "specific" /\ Len(args) >= 2 /\ ~exact)
        => /\ bpCalls = << >>
           /\ Compiles = << >>
           /\ retval # "true"

\* C5 as stated: in Current mode an undetected host always gets the output
\* directory and exactly one target-less compiler invocation writing
\* build/pref-doctor, the result being success iff that invocation succeeds; a
\* detected host gets exactly one builder call and never the fallback.
C5_FallbackAlwaysCompilesOnce ==
  (mode = "current" /\ Finished) =>
    IF HostEntry(host) = NULL
      THEN /\ pc # "rejected"
           /\ bpCalls = << >>
           /\ dirExists
           /\ Len(Compiles) = 1
           /\ Compiles[1].target = "none"
           /\ Compiles[1].outfile = << "build/", "pref-doctor" >>
           /\ (retval = "true") <=> (Compiles[1].outcome = "exit0")
      ELSE /\ Len(bpCalls) = 1
           /\ bpCalls[1].platform = HostEntry(host)
           /\ \A k \in 1..Len(Compiles) : Compiles[k].target # "none"

\* C5 (amended): in Current mode an undetected host never aborts the run; if
\* the output directory cannot be created the compiler is not invoked and the
\* result is failure, otherwise the compiler is invoked exactly once, without
\* target and writing build/pref-doctor, and the result is success iff that
\* invocation succeeds.  A detected host gets exactly one builder call with
\* its descriptor and never the fallback invocation.
C5_FallbackCompilesOnceUnlessNoDir ==
  (mode = "current" /\ Finished) =>
    IF HostEntry(host) = NULL
      THEN /\ pc # "rejected"
           /\ bpCalls = << >>
           /\ IF \E k \in 1..Len(trace) :
                   trace[k].op = "mkdir" /\ trace[k].outcome = "error"
                THEN /\ Compiles = << >>
                     /\ retval = "false"
                ELSE /\ dirExists
                     /\ Len(Compiles) = 1
                     /\ Compiles[1].target = "none"
                     /\ Compiles[1].outfile = << "build/", "pref-doctor" >>
                     /\ (retval = "true") <=> (Compiles[1].outcome = "exit0")
      ELSE /\ Len(bpCalls) = 1
           /\ bpCalls[1].platform = HostEntry(host)
           /\ \A k \in 1..Len(Compiles) : Compiles[k].target # "none"

C5_Witness ==
  /\ mode = "current" /\ pc = "exited"
  /\ host.platform = "freebsd"
  /\ Len(Compiles) = 1 /\ Compiles[1].outcome = "nonzero"
  /\ retval = "false"

\* C6: the detected platform is a function of the host pair alone: the
\* catalog entry of the normalized pair when there is one, and "not found"
\* when the OS or the architecture is unmapped or the pair is not in the
\* catalog.
C6_DetectionMatchesCatalog ==
  host.platform # "unread" => currentPlatform = HostEntry(host)

C6_Witness ==
  /\ host = [platform |-> "win32", arch |-> "arm64"]
  /\ currentPlatform = PLATFORMS[2]

\* C7: a clean run builds nothing, creates nothing, never rejects and exits 0
\* whatever the removal reports, also when it is started again on a file
\* system without the output directory.
C7_CleanIsBestEffort ==
  command = "--clean"
    => /\ bpCalls = << >>
       /\ \A k \in 1..Len(trace) : trace[k].op = "rm"
       /\ Len(trace) <= runs
       /\ pc # "rejected"
       /\ pc = "exited" => exitCode = 0

C7_Witness ==
  /\ command = "--clean" /\ runs = 2 /\ pc = "exited" /\ exitCode = 0
  /\ Len(trace) = 2
  /\ trace[1].outcome = "exit0"
  /\ ~dirExists

\* C8: the leading token alone selects the mode: an unknown token prints an
\* error and the usage, exits 1 and touches nothing; no token selects Current
\* mode; -h/--help prints the usage and exits 0 whatever follows, touching
\* nothing; --list touches nothing and exits 0.
C8_DispatchOnLeadingToken ==
  LET known     == { "-h", "--help", "-a", "--all", "-c", "--current", "-p",
                     "--platform", "--clean", "--list" }
      untouched == trace = << >> /\ bpCalls = << >>
  IN  pc # "main" =>
        /\ mode # "none"
        /\ (command # Undefined /\ command \notin known)
             => /\ pc = "exited" /\ exitCode = 1
                /\ { "error", "usage" } \subseteq log
                /\ untouched
        /\ command = Undefined => mode = "current"
        /\ command \in { "-h", "--help" }
             => /\ mode = "help" /\ "usage" \in log /\ untouched
                /\ pc \in { "return", "exited" }
                /\ pc = "exited" => exitCode = 0
        /\ command = "--list"
             => /\ mode = "list" /\ "list" \in log /\ untouched
                /\ pc \in { "return", "exited" }
                /\ pc = "exited" => exitCode = 0

C8_Witness ==
  /\ command = "--bogus" /\ Len(args) = 2
  /\ pc = "exited" /\ exitCode = 1

\* C9: a builder call whose compiler invocation exited 0 ends in success,
\* whether or not the artifact is on disk; a size is reported only for an
\* artifact that is present, so an absent artifact gives success without size.
C9_SizeStepNeverDowngrades ==
  /\ \A i \in 1..Len(bpCalls) :
       ( /\ bpCalls[i].result # "pending"
         /\ \E k \in 1..Len(Compiles) :
              /\ Compiles[k].target = bpCalls[i].platform.target
              /\ Compiles[k].outcome = "exit0" )
         => bpCalls[i].result = "true"
  /\ \A k \in 1..Len(trace) :
       trace[k].op = "size" => trace[k].outfile \in files

C9_Witness ==
  /\ mode = "specific" /\ pc = "exited"
  /\ Len(bpCalls) = 1 /\ bpCalls[1].result = "true"
  /\ Len(Compiles) = 1 /\ Compiles[1].outcome = "exit0"
  /\ Compiles[1].outfile \notin files
  /\ \A k \in 1..Len(trace) : trace[k].op # "size"

\* C10: catalog entries have pairwise distinct (os, arch) and artifact paths,
\* every targeted compiler invocation writes build/pref-doctor-<os>-<arch><ext>
\* of its entry, and All mode compiles in catalog order, one entry at a time:
\* a size report directly follows its own compilation, every earlier builder
\* call has ended before the next starts, and no entry is attempted twice.
C10_NoSharedArtifactSequentialAll ==
  LET path(p) == << "build/", "pref-doctor", "-", p.os, "-", p.arch >>
                   \o (IF p.extension = "" THEN << >> ELSE << p.extension >>)
      N == Len(PLATFORMS)
  IN  /\ \A i, j \in 1..N :
           i # j => /\ << PLATFORMS[i].os, PLATFORMS[i].arch >>
                         # << PLATFORMS[j].os, PLATFORMS[j].arch >>
                    /\ OutputName(PLATFORMS[i]) # OutputName(PLATFORMS[j])
      /\ \A k \in 1..Len(Compiles) :
           Compiles[k].target # "none"
             => \E i \in 1..N : /\ PLATFORMS[i].target = Compiles[k].target
                                /\ Compiles[k].outfile = path(PLATFORMS[i])
      /\ \A k \in 1..Len(trace) :
           trace[k].op = "size"
             => /\ k > 1
                /\ trace[k-1].op = "compile"
                /\ trace[k-1].outfile = trace[k].outfile
      /\ \A i \in 1..(Len(bpCalls) - 1) : bpCalls[i].result # "pending"
      /\ mode = "all"
           => /\ Len(Compiles) <= N
              /\ \A k \in 1..Len(Compiles) : Compiles[k].target = PLATFORMS[k].target
              /\ \A i \in 1..Len(bpCalls) : bpCalls[i].platform = PLATFORMS[i]

C10_Witness ==
  /\ mode = "all" /\ pc = "exited"
  /\ Len(Compiles) = Len(PLATFORMS)
  /\ tally = << 5, 6 >>
  /\ bpCalls[3].result = "false"

====
